---- MODULE Spec2Model ----
(***************************************************************************)
(* A model of nipype's file utilities (nipype/utils/filemanip.py) and of   *)
(* its RAM estimator (nipype/utils/ram_estimator.py).                      *)
(*                                                                         *)
(* Text is a sequence of one-character strings, so that slicing, suffix    *)
(* tests and concatenation are computed as the code computes them.         *)
(* Memory quantities are exact: a quantity is gb + frac / 1024**3 with     *)
(* 0 <= frac < 1024**3 (floating-point rounding is not modelled).          *)
(***************************************************************************)
EXTENDS Integers, Sequences, FiniteSets, TLC

VARIABLES
    cfg,        \* RamEstimator fields: input_multipliers, overhead_gb, min_gb, max_gb
    inputs,     \* the traited inputs object handed to RamEstimator.__call__
    result,     \* <<>> before a call, <<r>> with r what __call__ computed
    base,       \* <<>>, or <<b>>: the unclamped total of an earlier call and the input raised since
    fname,      \* the argument of split_filename / fname_presuffix
    parts,      \* <<>>, or <<pth, fname, ext>> as split_filename returned it
    newname,    \* <<>>, or <<path>> as fname_presuffix returned it
    filename,   \* the argument of check_forhash: a str, a list or a tuple of names
    found,      \* <<>>, or <<r>> with r what check_forhash did
    afile,      \* the file hash_timestamp is called on: its os.stat and content
    md5hex,     \* <<>>, or <<r>> with r what hash_timestamp returned
    earlier,    \* <<>>, or <<e>>: the file and the digest of an earlier hash_timestamp call
    fs,         \* the file system: path -> directory, regular file or symbolic link
    os_name,    \* os.name
    last,       \* <<>>, or <<c>>: the last copyfile / copyfiles call, its outcome, fs before it
    ncalls,     \* the number of calls made
    origfiles,  \* of each of the concurrent copyfile calls: its originalfile
    pc,         \* of each of the concurrent copyfile calls: the line it is at
    wrote,      \* the concurrent calls whose os.symlink succeeded, in that order
    alist,      \* the argument of list_to_filename
    collapsed   \* <<>>, or <<r>> with r what list_to_filename did

estVars == <<cfg, inputs, result, base>>

pathVars == <<fname, parts, newname>>

hashVars == <<filename, found>>

stampVars == <<afile, md5hex, earlier>>

fsVars == <<fs, os_name, last, ncalls>>

raceVars == <<origfiles, pc, wrote>>

listVars == <<alist, collapsed>>

vars == <<cfg, inputs, result, base, fname, parts, newname, filename, found,
          afile, md5hex, earlier, fs, os_name, last, ncalls, origfiles, pc, wrote,
          alist, collapsed>>

(***************************************************************************)
(* Quantities                                                              *)
(***************************************************************************)

\* 1024 ** 3, the divisor of a voxel contribution
GiB == 1073741824

\* the quantity gb + frac / GiB, normalised
Q(gb, frac) == [gb |-> gb + (frac \div GiB), frac |-> frac % GiB]

QAdd(a, b) == Q(a.gb + b.gb, a.frac + b.frac)

QLess(a, b) == a.gb < b.gb \/ (a.gb = b.gb /\ a.frac < b.frac)

QLeq(a, b) == a = b \/ QLess(a, b)

QMax(a, b) == IF QLess(a, b) THEN b ELSE a

QMin(a, b) == IF QLess(b, a) THEN b ELSE a

\* Python's None for an optional bound; a given bound v is <<v>>
None == <<>>

Some(v) == <<v>>

(***************************************************************************)
(* Text                                                                    *)
(***************************************************************************)

\* the last index of character c in s, 0 when there is none (str.rfind + 1)
RECURSIVE RFind(_, _)
RFind(s, c) ==
    IF s = <<>> THEN 0
    ELSE IF s[Len(s)] = c THEN Len(s)
    ELSE RFind(SubSeq(s, 1, Len(s) - 1), c)

\* s[:n] and s[n:] of Python for 0 <= n
Take(s, n) == SubSeq(s, 1, IF n < Len(s) THEN n ELSE Len(s))

Drop(s, n) == SubSeq(s, n + 1, Len(s))

\* s[:-n] of Python for n > 0
DropLast(s, n) == SubSeq(s, 1, Len(s) - n)

StartsWith(s, pre) == Len(pre) <= Len(s) /\ SubSeq(s, 1, Len(pre)) = pre

EndsWith(s, suf) == Len(suf) <= Len(s) /\ SubSeq(s, Len(s) - Len(suf) + 1, Len(s)) = suf

AllSlashes(s) == \A i \in 1..Len(s) : s[i] = "/"

\* str.rstrip('/')
RECURSIVE RStripSlashes(_)
RStripSlashes(s) ==
    IF s # <<>> /\ s[Len(s)] = "/" THEN RStripSlashes(SubSeq(s, 1, Len(s) - 1)) ELSE s

(***************************************************************************)
(* os.path (posixpath), as the functions below use it                      *)
(***************************************************************************)

\* os.path.split: <<head, tail>>
path_split(p) ==
    LET i == RFind(p, "/")
        head == Take(p, i)
        tail == Drop(p, i)
    IN  <<IF head # <<>> /\ ~AllSlashes(head) THEN RStripSlashes(head) ELSE head, tail>>

\* the first index in from..(to - 1) whose character is not a dot, 0 if none
RECURSIVE FirstNonDot(_, _, _)
FirstNonDot(p, from, to) ==
    IF from >= to THEN 0
    ELSE IF p[from] # "." THEN from
    ELSE FirstNonDot(p, from + 1, to)

\* os.path.splitext: <<root, ext>>; leading dots of the name start no extension
path_splitext(p) ==
    LET sepIndex == RFind(p, "/")
        dotIndex == RFind(p, ".")
    IN  IF dotIndex > sepIndex /\ FirstNonDot(p, sepIndex + 1, dotIndex) # 0
        THEN <<Take(p, dotIndex - 1), Drop(p, dotIndex - 1)>>
        ELSE <<p, <<>>>>

\* os.path.join(a, b)
path_join(a, b) ==
    IF StartsWith(b, <<"/">>) THEN b
    ELSE IF a = <<>> \/ a[Len(a)] = "/" THEN a \o b
    ELSE a \o <<"/">> \o b

\* str.split('/')
RECURSIVE SplitSlash(_, _)
SplitSlash(s, cur) ==
    IF s = <<>> THEN <<cur>>
    ELSE IF Head(s) = "/" THEN <<cur>> \o SplitSlash(Tail(s), <<>>)
    ELSE SplitSlash(Tail(s), Append(cur, Head(s)))

\* '/'.join(comps)
RECURSIVE JoinSlash(_)
JoinSlash(comps) ==
    IF comps = <<>> THEN <<>>
    ELSE IF Len(comps) = 1 THEN comps[1]
    ELSE comps[1] \o <<"/">> \o JoinSlash(Tail(comps))

\* the loop of os.path.normpath over the components
RECURSIVE NormComps(_, _, _)
NormComps(comps, new_comps, initial_slashes) ==
    IF comps = <<>> THEN new_comps
    ELSE LET comp == Head(comps)
         IN  IF comp = <<>> \/ comp = <<".">>
             THEN NormComps(Tail(comps), new_comps, initial_slashes)
             ELSE IF \/ comp # <<".", ".">>
                     \/ (initial_slashes = 0 /\ new_comps = <<>>)
                     \/ (new_comps # <<>> /\ new_comps[Len(new_comps)] = <<".", ".">>)
             THEN NormComps(Tail(comps), Append(new_comps, comp), initial_slashes)
             ELSE IF new_comps # <<>>
             THEN NormComps(Tail(comps), SubSeq(new_comps, 1, Len(new_comps) - 1),
                            initial_slashes)
             ELSE NormComps(Tail(comps), new_comps, initial_slashes)

\* os.path.normpath
path_normpath(p) ==
    IF p = <<>> THEN <<".">>
    ELSE LET initial_slashes ==
                 IF ~StartsWith(p, <<"/">>) THEN 0
                 ELSE IF StartsWith(p, <<"/", "/">>) /\ ~StartsWith(p, <<"/", "/", "/">>)
                 THEN 2 ELSE 1
             body == JoinSlash(NormComps(SplitSlash(p, <<>>), <<>>, initial_slashes))
             out == [i \in 1..initial_slashes |-> "/"] \o body
         IN  IF out = <<>> THEN <<".">> ELSE out

\* os.getcwd() of the calling process
Cwd == <<"/", "w">>

\* os.path.abspath
path_abspath(p) ==
    path_normpath(IF StartsWith(p, <<"/">>) THEN p ELSE path_join(Cwd, p))

(***************************************************************************)
(* filemanip: split_filename, fname_presuffix                              *)
(***************************************************************************)

\* the while loop of split_filename: <<fname, ext>> with ext the list of the
\* extensions in the order they were stripped (last first)
RECURSIVE StripExts(_, _)
StripExts(name, ext) ==
    LET r == path_splitext(name)
    IN  IF r[2] = <<>> THEN <<r[1], Append(ext, r[2])>>
        ELSE StripExts(r[1], Append(ext, r[2]))

\* ''.join(ext)
RECURSIVE Concat(_)
Concat(ss) == IF ss = <<>> THEN <<>> ELSE Head(ss) \o Concat(Tail(ss))

\* list.reverse()
Reverse(ss) == [i \in 1..Len(ss) |-> ss[Len(ss) + 1 - i]]

\* a mutant of split_filename: ext.reverse() is missing
split_filename_noreverse(name) ==
    LET st == path_split(name)
        r == StripExts(st[2], <<>>)
    IN  <<st[1], r[1], Concat(r[2])>>

\* split_filename: <<pth, fname, ext>>
split_filename(name) ==
    LET st == path_split(name)
        r == StripExts(st[2], <<>>)
    IN  <<st[1], r[1], Concat(Reverse(r[2]))>>

\* fname_presuffix; newpath None and '' are both <<>>, both false in "if newpath"
fname_presuffix(name, prefix, suffix, newpath, use_ext) ==
    LET sp == split_filename(name)
        ext == IF use_ext THEN sp[3] ELSE <<>>
        pth == IF newpath # <<>> THEN path_abspath(newpath) ELSE sp[1]
    IN  path_join(pth, prefix \o sp[2] \o suffix \o ext)

(***************************************************************************)
(* filemanip: check_forhash, hash_timestamp                                *)
(***************************************************************************)

\* the repetition count of the pattern '(_0x[a-z0-9]{32})'
HashLen == 32

\* the character class [a-z0-9]
TokenChars ==
    {"a", "b", "c", "d", "e", "f", "g", "h", "i", "j", "k", "l", "m", "n", "o", "p", "q",
     "r", "s", "t", "u", "v", "w", "x", "y", "z",
     "0", "1", "2", "3", "4", "5", "6", "7", "8", "9"}

\* the pattern matches at index i of name
MatchAt(name, i) ==
    /\ i + 2 + HashLen <= Len(name)
    /\ name[i] = "_" /\ name[i + 1] = "0" /\ name[i + 2] = "x"
    /\ \A j \in 1..HashLen : name[i + 2 + j] \in TokenChars

\* re.search(pattern, name) finds a match
re_search(name) == \E i \in 1..Len(name) : MatchAt(name, i)

\* re.findall(pattern, name) from index i on: the matches, left to right, not overlapping
RECURSIVE re_findall(_, _)
re_findall(name, i) ==
    IF i > Len(name) THEN <<>>
    ELSE IF MatchAt(name, i)
    THEN <<SubSeq(name, i, i + 2 + HashLen)>> \o re_findall(name, i + 3 + HashLen)
    ELSE re_findall(name, i + 1)

StrArg(name) == [k |-> "str", names |-> <<name>>]

ListArg(names) == [k |-> "list", names |-> names]

TupleArg(names) == [k |-> "tuple", names |-> names]

Returned(f, h) == [raised |-> FALSE, found |-> f, hash |-> h]

Raised == [raised |-> TRUE, found |-> FALSE, hash |-> None]

\* a mutant of check_forhash: the pattern is searched in the whole path
check_forhash_wholepath(arg) ==
    IF arg.k = "tuple" \/ arg.names = <<>> THEN Raised
    ELSE LET name == arg.names[1]
         IN  IF re_search(name) THEN Returned(TRUE, re_findall(name, 1))
             ELSE Returned(FALSE, None)

\* check_forhash: a list is replaced by its first element (IndexError when it is
\* empty), os.path.split raises on a tuple
check_forhash(arg) ==
    IF arg.k = "tuple" \/ arg.names = <<>> THEN Raised
    ELSE LET name == path_split(arg.names[1])[2]
         IN  IF re_search(name) THEN Returned(TRUE, re_findall(name, 1))
             ELSE Returned(FALSE, None)

DigitChars == <<"0", "1", "2", "3", "4", "5", "6", "7", "8", "9">>

\* str(n) of an int n >= 0
RECURSIVE str_int(_)
str_int(n) ==
    IF n < 10 THEN <<DigitChars[n + 1]>> ELSE str_int(n \div 10) \o <<DigitChars[(n % 10) + 1]>>

\* str(t) of a float t holding a whole number of seconds
str_float(t) == str_int(t) \o <<".", "0">>

\* md5(text).hexdigest(), taken to be free of collisions: the digest stands for its text
md5(text) == [md5 |-> text]

\* hash_timestamp; None is <<>>, a digest d is <<d>>
hash_timestamp(f) ==
    IF f.isfile
    THEN Some(md5(str_int(f.st_size) \o str_float(f.st_ctime) \o str_float(f.st_mtime)))
    ELSE None

(***************************************************************************)
(* The file system under os and shutil                                     *)
(***************************************************************************)

Dir == [t |-> "dir", data |-> 0, target |-> <<>>]

File(data) == [t |-> "file", data |-> data, target |-> <<>>]

Link(target) == [t |-> "link", data |-> 0, target |-> target]

Put(f, p, e) == [q \in DOMAIN f \cup {p} |-> IF q = p THEN e ELSE f[q]]

Remove(f, p) == [q \in DOMAIN f \ {p} |-> f[q]]

\* a mutant of lexists: whatever the path, the answer is yes
lexists_always(f, p) == TRUE

\* os.path.lexists
lexists(f, p) == p \in DOMAIN f

\* what p names once its symbolic links are followed: <<"file", q>>, <<"dir", q>>,
\* <<"none", q>> (nothing at q, the end of the chain) or <<"loop", q>>
RECURSIVE ResolveN(_, _, _)
ResolveN(f, p, fuel) ==
    IF p \notin DOMAIN f THEN <<"none", p>>
    ELSE IF f[p].t = "link"
    THEN IF fuel = 0 THEN <<"loop", p>> ELSE ResolveN(f, f[p].target, fuel - 1)
    ELSE <<f[p].t, p>>

Resolve(f, p) == ResolveN(f, p, Cardinality(DOMAIN f))

\* os.path.exists
exists(f, p) == Resolve(f, p)[1] \in {"file", "dir"}

\* the directory a new entry p goes into is there
HasParent(f, p) == LET d == path_split(p)[1] IN d \in DOMAIN f /\ f[d].t = "dir"

Done(f) == [fs |-> f, exc |-> "none"]

Fails(f, exc) == [fs |-> f, exc |-> exc]

\* os.unlink
os_unlink(f, p) ==
    IF p \notin DOMAIN f \/ f[p].t = "dir" THEN Fails(f, "OSError") ELSE Done(Remove(f, p))

\* os.symlink(src, dst): src is stored as given, whether or not it names anything
os_symlink(f, src, dst) ==
    IF dst \in DOMAIN f \/ ~HasParent(f, dst) THEN Fails(f, "OSError")
    ELSE Done(Put(f, dst, Link(src)))

\* shutil.copyfile(src, dst): Error when both name the same file; else src is
\* opened for reading and dst for writing, which follows a symbolic link at dst
shutil_copyfile(f, src, dst) ==
    LET rs == Resolve(f, src)
        rd == Resolve(f, dst)
    IN  IF rs[1] \in {"file", "dir"} /\ rs = rd THEN Fails(f, "Error")
        ELSE IF rs[1] # "file" THEN Fails(f, "IOError")
        ELSE IF rd[1] = "file" THEN Done(Put(f, rd[2], File(f[rs[2]].data)))
        ELSE IF rd[1] = "none" /\ HasParent(f, rd[2])
        THEN Done(Put(f, rd[2], File(f[rs[2]].data)))
        ELSE Fails(f, "IOError")

(***************************************************************************)
(* filemanip: copyfile, copyfiles                                          *)
(***************************************************************************)

ExtImg == <<".", "i", "m", "g">>

ExtHdr == <<".", "h", "d", "r">>

ExtMat == <<".", "m", "a", "t">>

\* lines 185-196 of copyfile: the symlink or the copy of the one file; a
\* shutil.Error is logged and dropped, any other exception leaves copyfile
PlaceFile(f, originalfile, newfile, copy, osname) ==
    IF osname = "posix" /\ ~copy
    THEN LET u == IF lexists(f, newfile) THEN os_unlink(f, newfile) ELSE Done(f)
         IN  IF u.exc # "none" THEN u ELSE os_symlink(u.fs, originalfile, newfile)
    ELSE LET c == shutil_copyfile(f, originalfile, newfile)
         IN  IF c.exc = "Error" THEN Done(c.fs) ELSE c

\* copyfile: the file, then for an .img file its .mat (if it exists) and its .hdr
RECURSIVE copyfile(_, _, _, _, _)
copyfile(f, originalfile, newfile, copy, osname) ==
    LET one == PlaceFile(f, originalfile, newfile, copy, osname)
        hdrofile == DropLast(originalfile, 4) \o ExtHdr
        hdrnfile == DropLast(newfile, 4) \o ExtHdr
        matofile == DropLast(originalfile, 4) \o ExtMat
        matnfile == DropLast(newfile, 4) \o ExtMat
        mat == IF exists(one.fs, matofile)
               THEN copyfile(one.fs, matofile, matnfile, copy, osname)
               ELSE Done(one.fs)
    IN  IF one.exc # "none" THEN one
        ELSE IF ~EndsWith(originalfile, ExtImg) THEN one
        ELSE IF mat.exc # "none" THEN mat
        ELSE copyfile(mat.fs, hdrofile, hdrnfile, copy, osname)

\* list.insert(i, x) with i counted from 0
InsertAt(l, i, x) == Take(l, i) \o <<x>> \o Drop(l, i)

\* a mutant of NewFiles: newfiles.insert(0, destfile)
NewFilesFront(newfiles, i, destfile) == InsertAt(newfiles, 0, destfile)

\* newfiles.insert(i, destfile)
NewFiles(newfiles, i, destfile) == InsertAt(newfiles, i, destfile)

\* filename_to_list of a str or a list
filename_to_list(arg) == arg.names

\* the loop of copyfiles from the i-th file (counted from 0) on
RECURSIVE CopyFilesLoop(_, _, _, _, _, _, _)
CopyFilesLoop(f, files, i, outfiles, copy, osname, newfiles) ==
    IF i >= Len(files) THEN [fs |-> f, exc |-> "none", ret |-> newfiles]
    ELSE IF Len(outfiles) > 1 /\ i + 1 > Len(outfiles)
    THEN [fs |-> f, exc |-> "IndexError", ret |-> <<>>]
    ELSE IF Len(outfiles) = 0 THEN [fs |-> f, exc |-> "IndexError", ret |-> <<>>]
    ELSE LET src == files[i + 1]
             destfile == IF Len(outfiles) > 1 THEN outfiles[i + 1]
                         ELSE fname_presuffix(src, <<>>, <<>>, outfiles[1], TRUE)
             c == copyfile(f, src, destfile, copy, osname)
         IN  IF c.exc # "none" THEN [fs |-> c.fs, exc |-> c.exc, ret |-> <<>>]
             ELSE CopyFilesLoop(c.fs, files, i + 1, outfiles, copy, osname,
                                NewFiles(newfiles, i, destfile))

\* copyfiles
copyfiles(f, filelist, dest, copy, osname) ==
    CopyFilesLoop(f, filename_to_list(filelist), 0, filename_to_list(dest), copy, osname, <<>>)

\* list_to_filename: filelist[0] of an empty list raises IndexError
list_to_filename(filelist) ==
    IF Len(filelist) > 1 THEN [exc |-> "none", ret |-> ListArg(filelist)]
    ELSE IF Len(filelist) = 0 THEN [exc |-> "IndexError", ret |-> ListArg(<<>>)]
    ELSE [exc |-> "none", ret |-> StrArg(filelist[1])]

(***************************************************************************)
(* RamEstimator                                                            *)
(***************************************************************************)

\* a mutant of clamp: the upper bound is applied with max instead of min
clamp_maxmax(value, min_val, max_val) ==
    LET v1 == IF min_val # None THEN QMax(min_val[1], value) ELSE value
    IN  IF max_val # None THEN QMax(max_val[1], v1) ELSE v1

clamp(value, min_val, max_val) ==
    LET v1 == IF min_val # None THEN QMax(min_val[1], value) ELSE value
    IN  IF max_val # None THEN QMin(max_val[1], v1) ELSE v1

RECURSIVE Prod(_)
Prod(s) == IF s = <<>> THEN 1 ELSE Head(s) * Prod(Tail(s))

\* math.prod(shape[:3])
voxels(shape) == Prod(SubSeq(shape, 1, IF Len(shape) < 3 THEN Len(shape) ELSE 3))

\* An element of a value: a string naming a path (st: "ok" a readable image of
\* the given shape, "unreadable" an existing file nib.load rejects, "missing"
\* no such path), a number n, or an object of another type.
StrEl(st, shape) == [k |-> "str", st |-> st, shape |-> shape, n |-> 0]

NumEl(n) == [k |-> "num", st |-> "-", shape |-> <<>>, n |-> n]

OtherEl == [k |-> "other", st |-> "-", shape |-> <<>>, n |-> 0]

\* A value of an input: "absent" (no such trait), "undefined" (Undefined or
\* None), a scalar (els has the one element) or a list/tuple of elements.
AbsentVal == [k |-> "absent", els |-> <<>>]

UndefinedVal == [k |-> "undefined", els |-> <<>>]

ScalarVal(el) == [k |-> "scalar", els |-> <<el>>]

ListVal(els) == [k |-> "list", els |-> els]

RECURSIVE OnlyStrs(_)
OnlyStrs(els) ==
    IF els = <<>> THEN <<>>
    ELSE IF Head(els).k = "str" THEN <<Head(els)>> \o OnlyStrs(Tail(els))
    ELSE OnlyStrs(Tail(els))

\* paths: [val] for a string, the strings of a list/tuple holding any; else None
PathsOf(val) ==
    IF val.k = "scalar" /\ val.els[1].k = "str" THEN Some(val.els)
    ELSE IF val.k = "list" /\ (\E i \in 1..Len(val.els) : val.els[i].k = "str")
    THEN Some(OnlyStrs(val.els))
    ELSE None

\* values: [val] for a number, a list/tuple whose elements are all numbers; else None
ValuesOf(val) ==
    IF val.k = "scalar" /\ val.els[1].k = "num" THEN Some(val.els)
    ELSE IF val.k = "list" /\ (\A i \in 1..Len(val.els) : val.els[i].k = "num")
    THEN Some(val.els)
    ELSE None

\* the loop over paths: <<vox_total, valid_files>>
RECURSIVE ScanPaths(_, _, _)
ScanPaths(paths, vox_total, valid_files) ==
    IF paths = <<>> THEN <<vox_total, valid_files>>
    ELSE LET p == Head(paths)
         IN  IF p.st = "ok"
             THEN ScanPaths(Tail(paths), vox_total + voxels(p.shape), valid_files + 1)
             ELSE ScanPaths(Tail(paths), vox_total, valid_files)

RECURSIVE SumNums(_)
SumNums(values) == IF values = <<>> THEN 0 ELSE Head(values).n + SumNums(Tail(values))

\* a mutant of FileContribution: the contribution is subtracted
FileContributionNeg(vox_total, multiplier) == Q(0, 0 - vox_total * multiplier)

\* vox_total * multiplier / (1024 ** 3)
FileContribution(vox_total, multiplier) == Q(0, vox_total * multiplier)

\* a mutant of NumContribution: the multiplier is not applied
NumContributionUnscaled(values, multiplier) == Q(SumNums(values), 0)

\* sum(float(v) for v in values) * multiplier
NumContribution(values, multiplier) == Q(SumNums(values) * multiplier, 0)

Line(attr, what) == [attr |-> attr, what |-> what]

\* a mutant of ProcessWeight: no line when no file of a file-like input is readable
ProcessWeightQuiet(attr, multiplier, ins) ==
    LET val == ins[attr]
        paths == PathsOf(val)
        values == ValuesOf(val)
        scan == ScanPaths(paths[1], 0, 0)
    IN  IF val.k = "absent" THEN [add |-> Q(0, 0), lines |-> <<Line(attr, "trait not found")>>]
        ELSE IF val.k = "undefined" THEN [add |-> Q(0, 0), lines |-> <<Line(attr, "undefined")>>]
        ELSE IF paths # None
        THEN IF scan[2] > 0
             THEN [add |-> FileContribution(scan[1], multiplier),
                   lines |-> <<Line(attr, "voxels")>>]
             ELSE [add |-> Q(0, 0), lines |-> <<>>]
        ELSE IF values # None
        THEN [add |-> NumContribution(values[1], multiplier), lines |-> <<Line(attr, "values")>>]
        ELSE [add |-> Q(0, 0), lines |-> <<Line(attr, "unsupported value type")>>]

\* one pass of the loop over input_multipliers.items(): what is added to total_gb
\* and what is appended to debug_lines
ProcessWeight(attr, multiplier, ins) ==
    LET val == ins[attr]
        paths == PathsOf(val)
        values == ValuesOf(val)
        scan == ScanPaths(paths[1], 0, 0)
    IN  IF val.k = "absent" THEN [add |-> Q(0, 0), lines |-> <<Line(attr, "trait not found")>>]
        ELSE IF val.k = "undefined" THEN [add |-> Q(0, 0), lines |-> <<Line(attr, "undefined")>>]
        ELSE IF paths # None
        THEN IF scan[2] > 0
             THEN [add |-> FileContribution(scan[1], multiplier),
                   lines |-> <<Line(attr, "voxels")>>]
             ELSE [add |-> Q(0, 0), lines |-> <<Line(attr, "no readable image files")>>]
        ELSE IF values # None
        THEN [add |-> NumContribution(values[1], multiplier), lines |-> <<Line(attr, "values")>>]
        ELSE [add |-> Q(0, 0), lines |-> <<Line(attr, "unsupported value type")>>]

RECURSIVE EstimateLoop(_, _, _, _)
EstimateLoop(weights, ins, total_gb, debug_lines) ==
    IF weights = <<>> THEN [total_gb |-> total_gb, debug_lines |-> debug_lines]
    ELSE LET w == Head(weights)
             step == ProcessWeight(w.attr, w.multiplier, ins)
         IN  EstimateLoop(Tail(weights), ins, QAdd(total_gb, step.add),
                          debug_lines \o step.lines)

\* RamEstimator.__call__: mem_gb and the debug lines (joined with " | " in the
\* code); raw is mem_gb before the clamp
Estimate(c, ins) ==
    LET acc == EstimateLoop(c.input_multipliers, ins, Q(0, 0), <<>>)
        raw == QAdd(acc.total_gb, c.overhead_gb)
        mem_gb == clamp(raw, c.min_gb, c.max_gb)
    IN  [mem_gb |-> mem_gb, raw |-> raw,
         trail |-> acc.debug_lines \o <<Line("Overhead", "total estimated RAM"),
                                        Line("Clamp", "GB")>>]

(***************************************************************************)
(* The estimator's configurations and inputs                               *)
(***************************************************************************)

\* the longest list/tuple value of an input
MaxList == 2

Attrs == {"in_file", "reference"}

Multipliers == {0 - 1, 2}

Shapes == {<<1, 1, 1>>, <<2, 1, 3, 5>>}

ScalarEls ==
    {StrEl("missing", <<>>), StrEl("unreadable", <<>>), OtherEl}
        \cup {StrEl("ok", sh) : sh \in Shapes}
        \cup {NumEl(n) : n \in {1, 3}}

ListEls == {StrEl("ok", <<1, 1, 1>>), NumEl(1), OtherEl}

SeqsUpTo(S, n) == UNION {[1..m -> S] : m \in 0..n}

Values ==
    {AbsentVal, UndefinedVal}
        \cup {ScalarVal(el) : el \in ScalarEls}
        \cup {ListVal(els) : els \in SeqsUpTo(ListEls, MaxList)}

\* input_multipliers: a dict, so each attribute at most once, in insertion order
WeightLists ==
    {w \in SeqsUpTo([attr : Attrs, multiplier : Multipliers], Cardinality(Attrs)) :
        \A i, j \in 1..Len(w) : i # j => w[i].attr # w[j].attr}

Configs ==
    [input_multipliers : WeightLists,
     overhead_gb : {Q(0, 0), Q(1, 0)},
     min_gb : {None, Some(Q(1, 0)), Some(Q(3, 0))},
     max_gb : {None, Some(Q(2, 0))}]

\* configurations without bounds, for the runs that compare unclamped totals
OpenConfigs == {c \in Configs : c.min_gb = None /\ c.max_gb = None}

EstIdle == cfg = <<>> /\ inputs = <<>> /\ result = <<>> /\ base = <<>>

PathIdle == fname = <<>> /\ parts = <<>> /\ newname = <<>>

HashIdle == filename = <<>> /\ found = <<>>

StampIdle == afile = <<>> /\ md5hex = <<>> /\ earlier = <<>>

FsIdle == fs = <<>> /\ os_name = "posix" /\ last = <<>> /\ ncalls = 0

RaceIdle == origfiles = <<>> /\ pc = <<>> /\ wrote = <<>>

ListIdle == alist = <<>> /\ collapsed = <<>>

EstInit(CS) ==
    /\ cfg \in CS
    /\ inputs \in [Attrs -> Values]
    /\ result = <<>>
    /\ base = <<>>
    /\ PathIdle /\ HashIdle /\ StampIdle /\ FsIdle /\ RaceIdle /\ ListIdle

\* mem_gb, estimator_string = estimator(inputs)
EstimateCall ==
    /\ result = <<>>
    /\ result' = <<Estimate(cfg, inputs)>>
    /\ UNCHANGED <<cfg, inputs, base, pathVars, hashVars, stampVars, fsVars, raceVars, listVars>>

\* total voxel count of a file-like value, sum of a numeric one
IsFileLike(val) == PathsOf(val) # None /\ val.k \notin {"absent", "undefined"}

IsNumeric(val) == ~IsFileLike(val) /\ ValuesOf(val) # None /\ val.k \notin {"absent", "undefined"}

Magnitude(val) ==
    IF IsFileLike(val) THEN ScanPaths(PathsOf(val)[1], 0, 0)[1] ELSE SumNums(ValuesOf(val)[1])

\* The caller changes one input to a value of the same kind and a larger
\* magnitude, and will call the estimator again.
RaiseInput ==
    /\ result # <<>>
    /\ base = <<>>
    /\ \E a \in Attrs, v \in Values :
        /\ \/ IsFileLike(inputs[a]) /\ IsFileLike(v)
           \/ IsNumeric(inputs[a]) /\ IsNumeric(v)
        /\ Magnitude(v) > Magnitude(inputs[a])
        /\ inputs' = [inputs EXCEPT ![a] = v]
        /\ base' = <<[raw |-> result[1].raw, attr |-> a]>>
    /\ result' = <<>>
    /\ UNCHANGED <<cfg, pathVars, hashVars, stampVars, fsVars, raceVars, listVars>>

EstNext == EstimateCall

Spec == EstInit(Configs) /\ [][EstNext]_vars

MonoNext == EstimateCall \/ RaiseInput

SpecMono == EstInit(OpenConfigs) /\ [][MonoNext]_vars

(***************************************************************************)
(* Calls of split_filename and fname_presuffix                             *)
(***************************************************************************)

\* the longest path tried
MaxPathLen == 6

PathChars == {"a", ".", "/"}

PathInit ==
    /\ fname \in SeqsUpTo(PathChars, MaxPathLen)
    /\ parts = <<>>
    /\ newname = <<>>
    /\ EstIdle /\ HashIdle /\ StampIdle /\ FsIdle /\ RaceIdle /\ ListIdle

\* pth, fname, ext = split_filename(fname)
SplitCall ==
    /\ parts = <<>>
    /\ parts' = <<split_filename(fname)>>
    /\ UNCHANGED <<fname, newname, estVars, hashVars, stampVars, fsVars, raceVars, listVars>>

\* fname_presuffix(fname): prefix='', suffix='', newpath=None, use_ext=True
PresuffixCall ==
    /\ newname = <<>>
    /\ newname' = <<fname_presuffix(fname, <<>>, <<>>, <<>>, TRUE)>>
    /\ UNCHANGED <<fname, parts, estVars, hashVars, stampVars, fsVars, raceVars, listVars>>

PathNext == SplitCall \/ PresuffixCall

SpecPath == PathInit /\ [][PathNext]_vars

(***************************************************************************)
(* Calls of check_forhash                                                  *)
(***************************************************************************)

Run(c, n) == [i \in 1..n |-> c]

TokenMark == <<"_", "0", "x">>

\* names around a run of characters that is one short of, exactly, or one longer
\* than a token
HashNames ==
    {pre \o TokenMark \o Run(c, n) \o post :
        pre \in {<<>>, <<"s">>, <<"d", "/", "s">>, <<"s", ".", "n">>},
        c \in {"a", "7", "A"},
        n \in (HashLen - 1)..(HashLen + 1),
        post \in {<<>>, <<".", "n">>, <<"_", "T", ".", "n", ".", "g">>, <<"/", "f", ".", "n">>,
                  TokenMark \o Run("b", HashLen)}}
        \cup {<<"s", "_", "T", ".", "n">>, <<>>}

HashArgs ==
    {StrArg(n) : n \in HashNames}
        \cup {ListArg(<<n>>) : n \in HashNames}
        \cup {ListArg(<<n, <<"s">> \o TokenMark \o Run("c", HashLen)>>) : n \in HashNames}
        \cup {TupleArg(<<n>>) : n \in HashNames}
        \cup {ListArg(<<>>)}

HashInit ==
    /\ filename \in HashArgs
    /\ found = <<>>
    /\ EstIdle /\ PathIdle /\ StampIdle /\ FsIdle /\ RaceIdle /\ ListIdle

\* check_forhash(filename)
CheckForHashCall ==
    /\ found = <<>>
    /\ found' = <<check_forhash(filename)>>
    /\ UNCHANGED <<filename, estVars, pathVars, stampVars, fsVars, raceVars, listVars>>

HashNext == CheckForHashCall

SpecHash == HashInit /\ [][HashNext]_vars

(***************************************************************************)
(* Calls of hash_timestamp                                                 *)
(***************************************************************************)

\* the largest st_size, st_ctime and st_mtime tried
MaxSize == 11

MaxCTime == 10

MaxMTime == 1

FileStates ==
    [isfile : {TRUE}, st_size : 0..MaxSize, st_ctime : 0..MaxCTime, st_mtime : 0..MaxMTime,
     content : {"x", "y"}]
        \cup {[isfile |-> FALSE, st_size |-> 0, st_ctime |-> 0, st_mtime |-> 0, content |-> "x"]}

StampInit ==
    /\ afile \in FileStates
    /\ md5hex = <<>>
    /\ earlier = <<>>
    /\ EstIdle /\ PathIdle /\ HashIdle /\ FsIdle /\ RaceIdle /\ ListIdle

\* md5hex = hash_timestamp(afile)
HashTimestampCall ==
    /\ md5hex = <<>>
    /\ md5hex' = <<hash_timestamp(afile)>>
    /\ UNCHANGED <<afile, earlier, estVars, pathVars, hashVars, fsVars, raceVars, listVars>>

\* Between two calls the file is written, touched, replaced or left alone.
FileChanges ==
    /\ md5hex # <<>>
    /\ earlier = <<>>
    /\ earlier' = <<[file |-> afile, md5hex |-> md5hex[1]]>>
    /\ afile' \in FileStates
    /\ md5hex' = <<>>
    /\ UNCHANGED <<estVars, pathVars, hashVars, fsVars, raceVars, listVars>>

StampNext == HashTimestampCall \/ FileChanges

SpecStamp == StampInit /\ [][StampNext]_vars

(***************************************************************************)
(* Calls of copyfile and copyfiles                                         *)
(***************************************************************************)

\* the number of calls made in a run
MaxCalls == 2

Root == <<"/">>

DirD == <<"/", "d">>

DirW == <<"/", "w">>

DirWD == <<"/", "w", "/", "d">>

RelD == <<"d">>

SrcImg == <<"/", "a", ".", "i", "m", "g">>

SrcHdr == <<"/", "a", ".", "h", "d", "r">>

SrcMat == <<"/", "a", ".", "m", "a", "t">>

SrcNii == <<"/", "b", ".", "n", "i", "i">>

OldFile == <<"/", "t">>

Nowhere == <<"/", "x">>

DstImg == <<"/", "d", "/", "a", ".", "i", "m", "g">>

DstHdr == <<"/", "d", "/", "a", ".", "h", "d", "r">>

DstMat == <<"/", "d", "/", "a", ".", "m", "a", "t">>

DstNii == <<"/", "d", "/", "b", ".", "n", "i", "i">>

DstGz == <<"/", "d", "/", "c", ".", "g", "z">>

Only(p, e) == [q \in {p} |-> e]

\* f and g together, g's entries first
Both(f, g) == [q \in DOMAIN f \cup DOMAIN g |-> IF q \in DOMAIN g THEN g[q] ELSE f[q]]

Empty == [q \in {} |-> Dir]

\* the directories, the image /a.img, the file /b.nii and an older file /t
BaseFs ==
    [q \in {Root, DirD, DirW, DirWD, SrcImg, SrcNii, OldFile} |->
        IF q \in {Root, DirD, DirW, DirWD} THEN Dir
        ELSE IF q = SrcImg THEN File(1)
        ELSE IF q = SrcNii THEN File(4)
        ELSE File(5)]

\* what is at the destination /d/a.img before the first call
PriorStates == {Empty, Only(DstImg, File(6)), Only(DstImg, Link(OldFile)),
                Only(DstImg, Link(Nowhere))}

FsInit ==
    /\ \E hdr \in {Empty, Only(SrcHdr, File(2))}, mat \in {Empty, Only(SrcMat, File(3))},
          prior \in PriorStates :
        fs = Both(Both(Both(BaseFs, hdr), mat), prior)
    /\ os_name \in {"posix", "nt"}
    /\ last = <<>>
    /\ ncalls = 0
    /\ EstIdle /\ PathIdle /\ HashIdle /\ StampIdle /\ RaceIdle /\ ListIdle

CopySources == {SrcImg, SrcNii}

CopyDests == {DstImg, DstNii, DstGz}

\* copyfile(originalfile, newfile, copy)
CopyFileCall ==
    /\ ncalls < MaxCalls
    /\ \E originalfile \in CopySources, newfile \in CopyDests, copy \in BOOLEAN :
        \E r \in {copyfile(fs, originalfile, newfile, copy, os_name)} :
            /\ fs' = r.fs
            /\ last' = <<[op |-> "copyfile", src |-> <<originalfile>>,
                          dst |-> StrArg(newfile), copy |-> copy, exc |-> r.exc,
                          ret |-> <<>>, pre |-> fs]>>
    /\ ncalls' = ncalls + 1
    /\ UNCHANGED <<os_name, estVars, pathVars, hashVars, stampVars, raceVars, listVars>>

FileLists ==
    {StrArg(SrcNii), ListArg(<<SrcNii>>), ListArg(<<SrcImg, SrcNii>>),
     ListArg(<<SrcNii, SrcImg>>)}

DestSpecs ==
    {StrArg(DirD), StrArg(RelD), ListArg(<<DirD>>), ListArg(<<DstNii>>),
     ListArg(<<DstImg, DstNii>>), ListArg(<<DstNii, DstImg>>)}

\* newfiles = copyfiles(filelist, dest, copy)
CopyFilesCall ==
    /\ ncalls < MaxCalls
    /\ \E filelist \in FileLists, dest \in DestSpecs, copy \in BOOLEAN :
        \E r \in {copyfiles(fs, filelist, dest, copy, os_name)} :
            /\ fs' = r.fs
            /\ last' = <<[op |-> "copyfiles", src |-> filename_to_list(filelist),
                          dst |-> dest, copy |-> copy, exc |-> r.exc,
                          ret |-> r.ret, pre |-> fs]>>
    /\ ncalls' = ncalls + 1
    /\ UNCHANGED <<os_name, estVars, pathVars, hashVars, stampVars, raceVars, listVars>>

FsNext == CopyFileCall \/ CopyFilesCall

SpecFs == FsInit /\ [][FsNext]_vars

(***************************************************************************)
(* Two copyfile calls at once, both to symlink (copy=False on posix) the    *)
(* same newfile; each line of copyfile that looks at or changes the file   *)
(* system is a step of its own.                                            *)
(***************************************************************************)

Calls == {1, 2}

\* originalfile of each call; neither ends in .img, so line 198 ends the call
RaceSources == {SrcNii, OldFile}

RaceDst == DstNii

RaceInit ==
    /\ \E prior \in {Empty, Only(RaceDst, File(6)), Only(RaceDst, Link(OldFile)),
                     Only(RaceDst, Link(Nowhere))} :
        fs = Both(BaseFs, prior)
    /\ os_name = "posix"
    /\ last = <<>>
    /\ ncalls = 0
    /\ origfiles \in [Calls -> RaceSources]
    /\ pc = [c \in Calls |-> "l185"]
    /\ wrote = <<>>
    /\ EstIdle /\ PathIdle /\ HashIdle /\ StampIdle /\ ListIdle

Goto(c, line) == pc' = [pc EXCEPT ![c] = line]

\* line 185: if os.path.lexists(newfile): fmlogger.warn(...)
Warn185(c) ==
    /\ pc[c] = "l185"
    /\ Goto(c, "l189")
    /\ UNCHANGED <<fs, os_name, last, ncalls, origfiles, wrote, estVars, pathVars, hashVars, stampVars, listVars>>

\* line 189: if os.path.lexists(newfile):
Check189(c) ==
    /\ pc[c] = "l189"
    /\ Goto(c, IF lexists(fs, RaceDst) THEN "l190" ELSE "l191")
    /\ UNCHANGED <<fs, os_name, last, ncalls, origfiles, wrote, estVars, pathVars, hashVars, stampVars, listVars>>

\* line 190: os.unlink(newfile)
Unlink190(c) ==
    /\ pc[c] = "l190"
    /\ \E r \in {os_unlink(fs, RaceDst)} :
        /\ fs' = r.fs
        /\ Goto(c, IF r.exc = "none" THEN "l191" ELSE "raised")
    /\ UNCHANGED <<os_name, last, ncalls, origfiles, wrote, estVars, pathVars, hashVars, stampVars, listVars>>

\* line 191: os.symlink(originalfile, newfile), and the return
Symlink191(c) ==
    /\ pc[c] = "l191"
    /\ \E r \in {os_symlink(fs, origfiles[c], RaceDst)} :
        /\ fs' = r.fs
        /\ Goto(c, IF r.exc = "none" THEN "returned" ELSE "raised")
        /\ wrote' = IF r.exc = "none" THEN Append(wrote, c) ELSE wrote
    /\ UNCHANGED <<os_name, last, ncalls, origfiles, estVars, pathVars, hashVars, stampVars, listVars>>

RaceNext == \E c \in Calls : Warn185(c) \/ Check189(c) \/ Unlink190(c) \/ Symlink191(c)

SpecRace == RaceInit /\ [][RaceNext]_vars

(***************************************************************************)
(* Calls of list_to_filename                                               *)
(***************************************************************************)

\* the longest list handed to list_to_filename
MaxFiles == 3

ListNames == {SrcImg, SrcHdr, SrcNii, DstImg, DstNii}

ListInit ==
    /\ alist \in SeqsUpTo(ListNames, MaxFiles)
    /\ collapsed = <<>>
    /\ EstIdle /\ PathIdle /\ HashIdle /\ StampIdle /\ FsIdle /\ RaceIdle

\* list_to_filename(filelist)
ListToFilenameCall ==
    /\ collapsed = <<>>
    /\ collapsed' = <<list_to_filename(alist)>>
    /\ UNCHANGED <<alist, estVars, pathVars, hashVars, stampVars, fsVars, raceVars>>

ListNext == ListToFilenameCall

SpecList == ListInit /\ [][ListNext]_vars

(***************************************************************************)
(* Claims about the estimator                                              *)
(***************************************************************************)

BothBounds == cfg.min_gb # None /\ cfg.max_gb # None

\* C1 as stated: whatever the configuration, min_gb <= memory_gb <= max_gb, with
\* memory_gb = min_gb when the unclamped total is below min_gb and memory_gb =
\* max_gb when it is above max_gb.
C1_WithinBoundsAnyConfig ==
    (result # <<>> /\ BothBounds) =>
        LET r == result[1]
            lo == cfg.min_gb[1]
            hi == cfg.max_gb[1]
        IN  /\ QLeq(lo, r.mem_gb) /\ QLeq(r.mem_gb, hi)
            /\ QLess(r.raw, lo) => r.mem_gb = lo
            /\ QLess(hi, r.raw) => r.mem_gb = hi

\* C1 amended: when min_gb <= max_gb (or a bound is unset), memory_gb respects
\* every bound that is set, is min_gb when the unclamped total is below min_gb
\* and max_gb when it is above max_gb.
C1_WithinOrderedBounds ==
    (result # <<>> /\ (BothBounds => QLeq(cfg.min_gb[1], cfg.max_gb[1]))) =>
        LET r == result[1]
        IN  /\ cfg.min_gb # None =>
                /\ QLeq(cfg.min_gb[1], r.mem_gb)
                /\ QLess(r.raw, cfg.min_gb[1]) => r.mem_gb = cfg.min_gb[1]
            /\ cfg.max_gb # None =>
                /\ QLeq(r.mem_gb, cfg.max_gb[1])
                /\ QLess(cfg.max_gb[1], r.raw) => r.mem_gb = cfg.max_gb[1]
            /\ (cfg.min_gb = None /\ cfg.max_gb = None) => r.mem_gb = r.raw

\* a call whose unclamped total lies below min_gb < max_gb and is clamped up
C1_Witness ==
    /\ result # <<>>
    /\ BothBounds
    /\ QLess(cfg.min_gb[1], cfg.max_gb[1])
    /\ QLess(result[1].raw, cfg.min_gb[1])
    /\ result[1].mem_gb = cfg.min_gb[1]
    /\ Len(cfg.input_multipliers) > 0

\* C9: the trail is one line per declared weight, in declaration order, then
\* the overhead line, then the clamp line.
C9_TrailShape ==
    result # <<>> =>
        LET t == result[1].trail
            w == cfg.input_multipliers
        IN  /\ Len(t) = Len(w) + 2
            /\ \A i \in 1..Len(w) : t[i].attr = w[i].attr
            /\ t[Len(w) + 1] = Line("Overhead", "total estimated RAM")
            /\ t[Len(w) + 2] = Line("Clamp", "GB")

\* two declared weights, the first with no readable file, the second absent,
\* and a total that the clamp leaves as it is
C9_Witness ==
    /\ result # <<>>
    /\ Len(cfg.input_multipliers) = 2
    /\ result[1].trail[1].what = "no readable image files"
    /\ result[1].trail[2].what = "trait not found"
    /\ result[1].mem_gb = result[1].raw
    /\ BothBounds

\* C10 as stated: with any multipliers, raising one input's magnitude never
\* lowers the unclamped total.
C10_MonotoneAnyMultiplier ==
    (base # <<>> /\ result # <<>>) => QLeq(base[1].raw, result[1].raw)

MultiplierNonNegative(attr) ==
    \A i \in 1..Len(cfg.input_multipliers) :
        cfg.input_multipliers[i].attr = attr => cfg.input_multipliers[i].multiplier >= 0

\* C10 amended: raising the magnitude of one input whose multiplier is not
\* negative never lowers the unclamped total.
C10_MonotoneNonNegative ==
    (base # <<>> /\ result # <<>> /\ MultiplierNonNegative(base[1].attr)) =>
        QLeq(base[1].raw, result[1].raw)

\* a declared input with a positive multiplier was raised and the total grew
C10_Witness ==
    /\ base # <<>>
    /\ result # <<>>
    /\ \E i \in 1..Len(cfg.input_multipliers) :
        /\ cfg.input_multipliers[i].attr = base[1].attr
        /\ cfg.input_multipliers[i].multiplier > 0
    /\ IsFileLike(inputs[base[1].attr])
    /\ QLess(base[1].raw, result[1].raw)

\* total_voxels of a value's elements: the readable images among its strings
RECURSIVE TotalVoxels(_)
TotalVoxels(els) ==
    IF els = <<>> THEN 0
    ELSE (IF Head(els).k = "str" /\ Head(els).st = "ok"
          THEN Prod(SubSeq(Head(els).shape, 1, 3)) ELSE 0) + TotalVoxels(Tail(els))

RECURSIVE SumOfValues(_)
SumOfValues(els) == IF els = <<>> THEN 0 ELSE Head(els).n + SumOfValues(Tail(els))

\* the contribution the claim gives to one declared weight
StatedContribution(w) ==
    LET val == inputs[w.attr]
        hasStr == \E i \in 1..Len(val.els) : val.els[i].k = "str"
        allNum == \A i \in 1..Len(val.els) : val.els[i].k = "num"
    IN  IF val.k \in {"absent", "undefined"} THEN Q(0, 0)
        ELSE IF hasStr THEN Q(0, TotalVoxels(val.els) * w.multiplier)
        ELSE IF allNum THEN Q(SumOfValues(val.els) * w.multiplier, 0)
        ELSE Q(0, 0)

RECURSIVE StatedSum(_)
StatedSum(weights) ==
    IF weights = <<>> THEN Q(0, 0)
    ELSE QAdd(StatedContribution(Head(weights)), StatedSum(Tail(weights)))

StatedRaw == QAdd(StatedSum(cfg.input_multipliers), cfg.overhead_gb)

\* max(low, min(high, value)), an unset bound imposing nothing
ClampLowLast(value, low, high) ==
    LET v1 == IF high # None THEN QMin(high[1], value) ELSE value
    IN  IF low # None THEN QMax(low[1], v1) ELSE v1

\* min(high, max(low, value)), an unset bound imposing nothing
ClampHighLast(value, low, high) ==
    LET v1 == IF low # None THEN QMax(low[1], value) ELSE value
    IN  IF high # None THEN QMin(high[1], v1) ELSE v1

\* C11 as stated: memory_gb is max(min_gb, min(max_gb, sum of the contributions
\* + overhead_gb)), with the contributions of file-like, numeric and other
\* inputs as the claim gives them.
C11_TotalClampedLowLast ==
    result # <<>> =>
        result[1].mem_gb = ClampLowLast(StatedRaw, cfg.min_gb, cfg.max_gb)

\* C11 amended: memory_gb is min(max_gb, max(min_gb, sum of the contributions
\* + overhead_gb)): the same contributions, and the upper bound applied last.
C11_TotalClampedHighLast ==
    result # <<>> =>
        /\ result[1].raw = StatedRaw
        /\ result[1].mem_gb = ClampHighLast(StatedRaw, cfg.min_gb, cfg.max_gb)

\* a call with a file-like and a numeric input that both contribute, under
\* both bounds
C11_Witness ==
    /\ result # <<>>
    /\ BothBounds
    /\ Len(cfg.input_multipliers) = 2
    /\ \E i, j \in 1..2 :
        /\ IsFileLike(inputs[cfg.input_multipliers[i].attr])
        /\ StatedContribution(cfg.input_multipliers[i]) # Q(0, 0)
        /\ IsNumeric(inputs[cfg.input_multipliers[j].attr])
        /\ StatedContribution(cfg.input_multipliers[j]) # Q(0, 0)
    /\ result[1].mem_gb = ClampHighLast(StatedRaw, cfg.min_gb, cfg.max_gb)

(***************************************************************************)
(* Claims about the path functions                                         *)
(***************************************************************************)

\* runs of separators collapsed to one separator
RECURSIVE CollapseSeps(_)
CollapseSeps(s) ==
    IF Len(s) < 2 THEN s
    ELSE IF s[1] = "/" /\ s[2] = "/" THEN CollapseSeps(Tail(s))
    ELSE <<s[1]>> \o CollapseSeps(Tail(s))

NoRepeatedSep(s) == \A i \in 1..(Len(s) - 1) : ~(s[i] = "/" /\ s[i + 1] = "/")

\* the number of dots of s
RECURSIVE Dots(_)
Dots(s) == IF s = <<>> THEN 0 ELSE (IF Head(s) = "." THEN 1 ELSE 0) + Dots(Tail(s))

FirstName == filename.names[1]

\* the pattern as C6 states it, at index i of name: `_0x`, exactly HashLen
\* characters of the class, all of it before the final extension
ExactTokenAt(name, i) ==
    /\ MatchAt(name, i)
    /\ i + 3 + HashLen <= Len(name) => name[i + 3 + HashLen] \notin TokenChars
    /\ i + 2 + HashLen <= Len(path_splitext(name)[1])

\* C6 as stated: true exactly when the name holds `_0x` and exactly 32 characters
\* of [a-z0-9] before the final extension, and then the 32-character token is
\* returned; else (false, None).
C6_ExactTokenBeforeExtension ==
    (found # <<>> /\ filename.k \in {"str", "list"} /\ filename.names # <<>>) =>
        /\ ~found[1].raised
        /\ found[1].found = (\E i \in 1..Len(FirstName) : ExactTokenAt(FirstName, i))
        /\ found[1].found =>
            \E i \in 1..Len(FirstName) :
                /\ ExactTokenAt(FirstName, i)
                /\ found[1].hash = SubSeq(FirstName, i + 3, i + 2 + HashLen)
        /\ ~found[1].found => found[1].hash = None

\* C6 amended: for a name or a non-empty list (its first name), true exactly
\* when the last path component holds `_0x` followed by at least 32 characters
\* of [a-z0-9], anywhere in it; then the list of the matches is returned, each
\* `_0x` and 32 characters, the first one the leftmost; else (false, None).
C6_TokenInBasename ==
    (found # <<>> /\ filename.k \in {"str", "list"} /\ filename.names # <<>>) =>
        LET name == path_split(FirstName)[2]
            at == {i \in 1..Len(name) : MatchAt(name, i)}
            h == found[1].hash
        IN  /\ ~found[1].raised
            /\ found[1].found = (at # {})
            /\ found[1].found =>
                /\ Len(h) >= 1
                /\ \A k \in 1..Len(h) :
                    \E i \in at : h[k] = TokenMark \o SubSeq(name, i + 3, i + 2 + HashLen)
                /\ \E i \in at :
                    /\ \A j \in at : i <= j
                    /\ h[1] = SubSeq(name, i, i + 2 + HashLen)
            /\ ~found[1].found => h = None

\* a list of two names whose first holds, below a directory, `_0x` and 33
\* characters of the class before an extension
C6_Witness ==
    /\ found # <<>>
    /\ filename.k = "list"
    /\ Len(filename.names) = 2
    /\ found[1].found
    /\ Len(found[1].hash) = 1
    /\ FirstName = <<"d", "/", "s">> \o TokenMark \o Run("a", HashLen + 1) \o <<".", "n">>

SameStat(f, g) ==
    f.st_size = g.st_size /\ f.st_ctime = g.st_ctime /\ f.st_mtime = g.st_mtime

\* C8: for regular files the digest is the same when size, creation time and
\* modification time are all unchanged, and different when any of them differs,
\* whatever the content.
C8_DigestTracksStat ==
    (earlier # <<>> /\ md5hex # <<>> /\ earlier[1].file.isfile /\ afile.isfile) =>
        (earlier[1].md5hex = md5hex[1]) = SameStat(earlier[1].file, afile)

(***************************************************************************)
(* Claims about copyfile and copyfiles                                     *)
(***************************************************************************)

Returned1(op) == last # <<>> /\ last[1].op = op /\ last[1].exc = "none"

LinkMode == ~last[1].copy /\ os_name = "posix"

\* C2: after a copyfile call that returns, in link mode on posix the
\* destination is a symbolic link that resolves to the source; otherwise it is
\* a regular file of its own holding the source's bytes.
C2_DestinationAsPlaced ==
    Returned1("copyfile") =>
        LET c == last[1]
            src == c.src[1]
            dst == c.dst.names[1]
        IN  /\ dst \in DOMAIN fs
            /\ IF LinkMode
               THEN fs[dst].t = "link" /\ Resolve(fs, dst) = <<"file", src>>
               ELSE fs[dst] = File(c.pre[src].data)

\* C3: a copyfile call on an .img file places the .hdr file at the destination's
\* name when it exists, fails when it does not exist, and succeeds without the
\* .mat file when only that is missing.
C3_CompanionsPlacedOrError ==
    (last # <<>> /\ last[1].op = "copyfile" /\ EndsWith(last[1].src[1], ExtImg)) =>
        LET c == last[1]
            hdro == DropLast(c.src[1], 4) \o ExtHdr
            mato == DropLast(c.src[1], 4) \o ExtMat
            hdrn == DropLast(c.dst.names[1], 4) \o ExtHdr
            matn == DropLast(c.dst.names[1], 4) \o ExtMat
        IN  /\ (exists(c.pre, hdro) /\ c.exc = "none") =>
                /\ hdrn \in DOMAIN fs
                /\ Resolve(fs, hdrn)[1] = "file"
                /\ fs[Resolve(fs, hdrn)[2]].data = c.pre[hdro].data
            /\ ~exists(c.pre, hdro) => c.exc # "none"
            /\ (exists(c.pre, hdro) /\ ~exists(c.pre, mato)) =>
                /\ c.exc = "none"
                /\ (matn \in DOMAIN fs) = (matn \in DOMAIN c.pre)

\* the destinations copyfiles derives into directory dir
Derived(files, dir) ==
    [i \in 1..Len(files) |-> path_join(path_abspath(dir), path_split(files[i])[2])]

\* C4 as stated: copyfiles returns one destination per source, in order: the
\* source's name in the directory when dest is a directory, and dest[i] itself
\* when dest is a sequence as long as the sources, of any length >= 1.
C4_ExplicitOfAnyLength ==
    Returned1("copyfiles") =>
        LET c == last[1]
        IN  /\ Len(c.ret) = Len(c.src)
            /\ c.dst.k = "str" => c.ret = Derived(c.src, c.dst.names[1])
            /\ (c.dst.k = "list" /\ Len(c.dst.names) = Len(c.src)) => c.ret = c.dst.names

\* C4 amended: one destination per source, in order, each an entry after the
\* call: dest[i] itself when dest is a sequence of two or more names, and the
\* source's name in the directory dest (made absolute) when dest is one
\* directory or a sequence of one name.
C4_ExplicitOfTwoOrMore ==
    Returned1("copyfiles") =>
        LET c == last[1]
        IN  /\ Len(c.ret) = Len(c.src)
            /\ \A i \in 1..Len(c.ret) : c.ret[i] \in DOMAIN fs
            /\ Len(c.dst.names) = 1 => c.ret = Derived(c.src, c.dst.names[1])
            /\ Len(c.dst.names) > 1 =>
                \A i \in 1..Len(c.ret) : c.ret[i] = c.dst.names[i]

\* two sources placed at two given names, and before that one source placed
\* into the directory named by a sequence of one name
C4_Witness ==
    /\ Returned1("copyfiles")
    /\ last[1].src = <<SrcImg, SrcNii>>
    /\ last[1].dst = ListArg(<<DstNii, DstImg>>)
    /\ last[1].ret = <<DstNii, DstImg>>
    /\ ncalls = 2

(***************************************************************************)
(* Claims about concurrent copyfile calls                                  *)
(***************************************************************************)

AllEnded == pc # <<>> /\ \A c \in Calls : pc[c] \in {"returned", "raised"}

LastWriterHolds ==
    /\ wrote # <<>>
    /\ RaceDst \in DOMAIN fs
    /\ fs[RaceDst] = Link(origfiles[wrote[Len(wrote)]])

C12_CollapseTotal ==
    collapsed # <<>> =>
        /\ collapsed[1].exc = "none"
        /\ collapsed[1].ret = IF Len(alist) = 1 THEN StrArg(alist[1]) ELSE ListArg(alist)

(***************************************************************************)
(* Claims about failures, companions' names and other files                *)
(***************************************************************************)

CopyMode == last[1].copy \/ os_name # "posix"

\* the one copyfile call made last, with its arguments
LastCopyfile == last # <<>> /\ last[1].op = "copyfile"

\* C13: when the shutil.copyfile of a copyfile call in copy mode fails, for
\* whatever reason, the call raises.
C13_FailedCopyRaises ==
    (LastCopyfile /\ CopyMode
        /\ shutil_copyfile(last[1].pre, last[1].src[1], last[1].dst.names[1]).exc # "none")
    => last[1].exc # "none"

\* the destination with its extension replaced by ext
WithExtension(newfile, ext) == path_splitext(newfile)[1] \o ext

\* C14: after a copyfile call of an .img file that returned, the header is at
\* the destination's directory and stem with the extension .hdr, and the .mat
\* file (when the source has one) at the same with the extension .mat.
C14_CompanionsAtStem ==
    (LastCopyfile /\ last[1].exc = "none" /\ EndsWith(last[1].src[1], ExtImg)) =>
        LET newfile == last[1].dst.names[1]
            matofile == DropLast(last[1].src[1], 4) \o ExtMat
        IN  /\ lexists(fs, WithExtension(newfile, ExtHdr))
            /\ exists(last[1].pre, matofile) => lexists(fs, WithExtension(newfile, ExtMat))

\* the destination of a call and the names its companions get
Destinations(newfile) ==
    {newfile, DropLast(newfile, 4) \o ExtHdr, DropLast(newfile, 4) \o ExtMat,
     WithExtension(newfile, ExtHdr), WithExtension(newfile, ExtMat)}

\* C15: a copyfile call leaves every entry other than its destination and its
\* companions' destinations as it was: still there, with the same content.
C15_OtherEntriesUnchanged ==
    LastCopyfile =>
        \A q \in DOMAIN last[1].pre \ Destinations(last[1].dst.names[1]) :
            q \in DOMAIN fs /\ fs[q] = last[1].pre[q]

====
